---- MODULE Spec2Model ----
(***************************************************************************)
(* Model of examples/without-gates/health_checker.py: the single probe      *)
(* check_single_url, the batch check_health that runs the probes on a       *)
(* ThreadPoolExecutor and collects them with as_completed, and the          *)
(* reordering and summary computed at the end of check_health.              *)
(***************************************************************************)
EXTENDS Integers, Sequences, FiniteSets, TLC

\* ---------------------------------------------------------------- bounds
MaxTargets == 3      \* longest target list of a batch
MaxWorkers == 2      \* largest max_workers argument
SmallTotal == 20     \* summary inputs: every (up, total) with total <= SmallTotal
LargeTotal == 2001   \* summary inputs: one large batch size
Edge == 2            \* for the large batch, up within Edge of 0 or of total
MaxClock == 2        \* largest value of the clock, in seconds
MaxCalls == 2        \* successive check_single_url calls by one caller

\* ------------------------------------------------------------- constants
DefaultOrder == 999  \* url_order.get(r.url, 999)

\* Optional[...] values: None is the empty tuple, a present value x is <<x>>
None == << >>
Some(x) == << x >>

\* Target strings.  urllib.request.Request accepts a string only when it
\* has a "scheme:" prefix; "a.test" has none.
Urls == {"http://a.test", "http://b.test", "a.test"}

HasScheme(url) == url \in {"http://a.test", "http://b.test"}

\* How urlopen resolves for one request.
Kinds == {"response", "HTTPError", "URLError", "timeout", "Exception"}

\* The ways the server behind a target may answer one request; the same
\* target may answer differently from one request to the next.  a.test is a
\* server that answers, b.test one that cannot be reached.
Answers(url) ==
  IF url = "http://a.test" THEN {"response", "HTTPError", "timeout"}
  ELSE {"URLError", "Exception"}

Range(s) == {s[i] : i \in DOMAIN s}

VARIABLES
  urls,         \* argument of check_health
  max_workers,  \* argument of check_health
  pc,           \* position of the check_health caller thread
  submitted,    \* number of futures created by executor.submit
  work_queue,   \* executor's FIFO queue of futures not yet taken by a worker
  num_threads,  \* worker threads spawned by the executor
  fut,          \* per future: state, how its request resolved, result/exception
  yielded,      \* futures already yielded by as_completed
  results,      \* the local list `results`
  exc,          \* exception propagating out of check_health, or None
  report,       \* value returned by check_health, or None
  calc,         \* summary arithmetic applied on its own: [up, total, pct]
  attempts,     \* per future: times its probe set out to make its request
  stable,       \* when targets are stable: the one way each url answers
  first,        \* outcome of the first of two check_health calls, or None
  exit_status,  \* exit status of the command-line process, or None
  caller_headers, \* the headers mapping owned by a caller of check_single_url
  clock,        \* value time.time() returns now
  call,         \* the invocation of check_single_url in progress
  ncalls        \* invocations of check_single_url begun by that caller

vars == <<urls, max_workers, pc, submitted, work_queue, num_threads,
          fut, yielded, results, exc, report, calc, attempts, stable, first,
          exit_status, caller_headers, clock, call, ncalls>>

batch == <<urls, max_workers, pc, submitted, work_queue, num_threads,
           fut, yielded, results, exc, report>>

\* What the actions of one check_health call leave alone.
others == <<stable, first, exit_status, caller_headers, clock, call, ncalls>>

\* ------------------------------------------------------- check_single_url
\* Variant of HealthResult: an HTTP error response is classified by
\* reachability, as "up".
HealthResult_HttpErrorUp(probe, url, kind) ==
  IF kind \in {"response", "HTTPError"}
    THEN [probe |-> probe, url |-> url, status |-> "up",
          status_code |-> Some(IF kind = "response" THEN 200 ELSE 500),
          error |-> None]
    ELSE [probe |-> probe, url |-> url, status |-> "down",
          status_code |-> None, error |-> Some("unexpected")]

\* The HealthResult built by the branch of the try statement that the
\* resolution of urlopen selects.  `probe` names the future the result
\* belongs to (the identity of the HealthResult object).
HealthResult(probe, url, kind) ==
  CASE kind = "response" ->
         [probe |-> probe, url |-> url, status |-> "up",
          status_code |-> Some(200), error |-> None]
    [] kind = "HTTPError" ->
         [probe |-> probe, url |-> url, status |-> "down",
          status_code |-> Some(500), error |-> Some("Internal Server Error")]
    [] kind = "URLError" ->
         [probe |-> probe, url |-> url, status |-> "down",
          status_code |-> None, error |-> Some("Connection refused")]
    [] kind = "timeout" ->
         [probe |-> probe, url |-> url, status |-> "down",
          status_code |-> None, error |-> Some("timed out")]
    [] OTHER ->
         [probe |-> probe, url |-> url, status |-> "down",
          status_code |-> None, error |-> Some("unexpected")]

\* One call of check_single_url as the worker's work item runs it.
\* urllib.request.Request(url, ...) is built before the try statement: for a
\* string without a scheme it raises ValueError, which the work item stores
\* in the future.  Otherwise the request is made once and resolves as `kind`.
check_single_url(probe, url, kind) ==
  IF HasScheme(url)
    THEN [state |-> "finished", kind |-> kind, exception |-> None,
          result |-> Some(HealthResult(probe, url, kind))]
    ELSE [state |-> "finished", kind |-> "no_request",
          exception |-> Some("ValueError"), result |-> None]

NoFuture == [state |-> "none", kind |-> "none", exception |-> None, result |-> None]

PendingFuture == [NoFuture EXCEPT !.state = "pending"]

\* HealthResult.to_dict: a key is present only when its value is not None.
to_dict(r) ==
  [probe |-> r.probe, url |-> r.url, status |-> r.status]
    @@ (IF r.status_code # None THEN "status_code" :> r.status_code[1]
                                ELSE [k \in {} |-> k])
    @@ (IF r.error # None THEN "error" :> r.error[1] ELSE [k \in {} |-> k])

\* ------------------------------------------------------------- aggregator
\* url_order = {url: i for i, url in enumerate(urls)}: a later occurrence of
\* a string overwrites the index of an earlier one (indices are 0-based).
url_order(us) ==
  [u \in Range(us) |->
     (CHOOSE i \in DOMAIN us :
         us[i] = u /\ \A j \in DOMAIN us : us[j] = u => j <= i) - 1]

SortKey(us, r) ==
  IF r.url \in DOMAIN url_order(us) THEN url_order(us)[r.url] ELSE DefaultOrder

\* list.sort is stable: r goes after every element whose key is <= its key.
RECURSIVE InsertByKey(_, _, _)
InsertByKey(us, s, r) ==
  IF s = << >> THEN << r >>
  ELSE IF SortKey(us, s[Len(s)]) <= SortKey(us, r)
         THEN Append(s, r)
         ELSE Append(InsertByKey(us, SubSeq(s, 1, Len(s) - 1), r), s[Len(s)])

\* Variant of SortByUrlOrder: the results are left in collection order.
SortByUrlOrder_None(us, s) == s

RECURSIVE SortByUrlOrder(_, _)
SortByUrlOrder(us, s) ==
  IF s = << >> THEN << >>
  ELSE InsertByKey(us, SortByUrlOrder(us, SubSeq(s, 1, Len(s) - 1)), s[Len(s)])

\* Variant of CountStatus: "up" is counted by the presence of a status code.
CountStatus_ByCode(s, st) ==
  IF st = "up" THEN Cardinality({i \in DOMAIN s : s[i].status_code # None})
  ELSE Cardinality({i \in DOMAIN s : s[i].status = st})

CountStatus(s, st) == Cardinality({i \in DOMAIN s : s[i].status = st})

\* Variant of RoundTenths: truncation instead of rounding.
RoundTenths_Truncate(num, den) == (10 * num) \div den

\* round(x, 1) of x = up_count / total * 100, in tenths of a percent.
\* Python rounds the double to the nearest tenth; an exactly representable
\* half (6.25) goes to the even tenth.
RoundTenths(num, den) ==
  LET q == (10 * num) \div den
      r == (10 * num) % den
  IN  IF 2 * r > den \/ (2 * r = den /\ q % 2 = 1) THEN q + 1 ELSE q

\* Variant of healthy_percentage: an empty batch counts as fully healthy.
healthy_percentage_EmptyIsFull(up_count, total) ==
  IF total # 0 THEN RoundTenths(up_count * 100, total) ELSE 1000

\* round(up_count / len(results) * 100, 1) if results else 0
healthy_percentage(up_count, total) ==
  IF total # 0 THEN RoundTenths(up_count * 100, total) ELSE 0

\* Lines 103-119 of check_health: sort, count, build the returned dict.
Summarize(us, res) ==
  LET sorted == SortByUrlOrder(us, res)
      up_count == CountStatus(sorted, "up")
      down_count == CountStatus(sorted, "down")
  IN  [results |-> [i \in DOMAIN sorted |-> to_dict(sorted[i])],
       summary |-> [total |-> Len(sorted), up |-> up_count, down |-> down_count,
                    healthy_percentage |-> healthy_percentage(up_count, Len(sorted))],
       all_healthy |-> (down_count = 0)]

\* ------------------------------------------------------------ the batch
Futures == 1..Len(urls)

Running == {i \in Futures : fut[i].state = "running"}

Finished == {i \in Futures : fut[i].state = "finished"}

RECURSIVE SeqsUpTo(_, _)
SeqsUpTo(S, n) ==
  IF n = 0 THEN {<< >>}
  ELSE LET shorter == SeqsUpTo(S, n - 1)
       IN  shorter \cup {Append(s, x) : s \in {t \in shorter : Len(t) = n - 1}, x \in S}

\* No invocation of check_single_url by a direct caller is in progress.
NoCall == [pc |-> "idle", url |-> "", headers |-> << >>, start_time |-> 0,
           result |-> None, exception |-> None]

\* The parts of the state that one check_health call does not use.
OthersIdle ==
  /\ stable = None
  /\ first = None
  /\ exit_status = None
  /\ caller_headers = None
  /\ clock = 0
  /\ call = NoCall
  /\ ncalls = 0

Init ==
  /\ urls \in SeqsUpTo(Urls, MaxTargets)
  /\ max_workers \in (0 - 1)..MaxWorkers
  /\ pc = "call"
  /\ submitted = 0
  /\ work_queue = << >>
  /\ num_threads = 0
  /\ fut = [i \in 1..Len(urls) |-> NoFuture]
  /\ yielded = {}
  /\ results = << >>
  /\ exc = None
  /\ report = None
  /\ calc = None
  /\ attempts = [i \in 1..Len(urls) |-> 0]
  /\ OthersIdle

\* Variant of CreateExecutor: max_workers is not validated.
CreateExecutor_NoCheck ==
  /\ pc = "call"
  /\ pc' = IF Len(urls) = 0 THEN "collect" ELSE "submit"
  /\ UNCHANGED <<urls, max_workers, submitted, work_queue, num_threads,
                 fut, yielded, results, exc, report, calc, attempts, others>>

\* ThreadPoolExecutor(max_workers=max_workers): the constructor raises
\* ValueError when max_workers <= 0, before the with block is entered.
\* With no url, the dict comprehension submits nothing.
CreateExecutor ==
  /\ pc = "call"
  /\ IF max_workers <= 0
       THEN /\ pc' = "raised"
            /\ exc' = Some("ValueError")
       ELSE /\ pc' = IF Len(urls) = 0 THEN "collect" ELSE "submit"
            /\ exc' = exc
  /\ UNCHANGED <<urls, max_workers, submitted, work_queue, num_threads,
                 fut, yielded, results, report, calc, attempts, others>>

\* executor.submit(check_single_url, url, timeout, headers) for the next url:
\* a new future is queued.  The executor then either takes an idle token,
\* which only a worker that has finished a work item can have left (reuse),
\* or spawns a thread while fewer than max_workers exist.
Submit ==
  /\ pc = "submit"
  /\ submitted < Len(urls)
  /\ submitted' = submitted + 1
  /\ fut' = [fut EXCEPT ![submitted + 1] = PendingFuture]
  /\ work_queue' = Append(work_queue, submitted + 1)
  /\ \E reuse \in BOOLEAN :
       /\ reuse => Finished # {}
       /\ num_threads' = IF ~reuse /\ num_threads < max_workers
                           THEN num_threads + 1 ELSE num_threads
  /\ pc' = IF submitted + 1 = Len(urls) THEN "collect" ELSE "submit"
  /\ UNCHANGED <<urls, max_workers, yielded, results, exc, report, calc, attempts, others>>

\* Variant of WorkerAvailable: one thread per work item, no cap.
WorkerAvailable_Unbounded == TRUE

\* A worker thread that is not running a work item takes the head of the
\* queue and starts running check_single_url for it: the probe sets out to
\* make its one request (lines 41-45).
WorkerAvailable == Cardinality(Running) < num_threads

WorkerStart ==
  /\ work_queue # << >>
  /\ WorkerAvailable
  /\ fut' = [fut EXCEPT ![Head(work_queue)].state = "running"]
  /\ attempts' = [attempts EXCEPT ![Head(work_queue)] = @ + 1]
  /\ work_queue' = Tail(work_queue)
  /\ UNCHANGED <<urls, max_workers, pc, submitted, num_threads,
                 yielded, results, exc, report, calc, others>>

\* Variant of WorkerFinish: a request that did not get a response is made
\* once more before the probe gives up.
WorkerFinish_Retry(i, kind) ==
  /\ i \in Running
  /\ kind \in Answers(urls[i])
  /\ IF kind # "response" /\ HasScheme(urls[i]) /\ attempts[i] < 2
       THEN /\ attempts' = [attempts EXCEPT ![i] = @ + 1]
            /\ fut' = fut
       ELSE /\ attempts' = attempts
            /\ fut' = [fut EXCEPT ![i] = check_single_url(i, urls[i], kind)]
  /\ UNCHANGED <<urls, max_workers, pc, submitted, work_queue, num_threads,
                 yielded, results, exc, report, calc, others>>

\* The running work item i completes: check_single_url returned or raised,
\* and the future holds the result or the exception.
WorkerFinish(i, kind) ==
  /\ i \in Running
  /\ kind \in Answers(urls[i])
  /\ fut' = [fut EXCEPT ![i] = check_single_url(i, urls[i], kind)]
  /\ UNCHANGED <<urls, max_workers, pc, submitted, work_queue, num_threads,
                 yielded, results, exc, report, calc, attempts, others>>

\* Variant of Collect: outcomes are kept per url, so a second outcome for a
\* url already seen is dropped.
Collect_PerUrl(i) ==
  /\ pc = "collect"
  /\ i \in Finished \ yielded
  /\ yielded' = yielded \cup {i}
  /\ IF fut[i].exception # None
       THEN /\ exc' = fut[i].exception
            /\ pc' = "shutdown"
            /\ results' = results
       ELSE /\ exc' = exc
            /\ pc' = pc
            /\ results' = IF \E j \in DOMAIN results : results[j].url = urls[i]
                            THEN results
                            ELSE Append(results, fut[i].result[1])
  /\ UNCHANGED <<urls, max_workers, submitted, work_queue, num_threads,
                 fut, report, calc, attempts, others>>

\* One iteration of `for future in as_completed(future_to_url)`: a finished
\* future not yet yielded is yielded; future.result() returns its
\* HealthResult, which is appended, or re-raises its exception, which leaves
\* the loop.
Collect(i) ==
  /\ pc = "collect"
  /\ i \in Finished \ yielded
  /\ yielded' = yielded \cup {i}
  /\ IF fut[i].exception # None
       THEN /\ exc' = fut[i].exception
            /\ pc' = "shutdown"
            /\ results' = results
       ELSE /\ exc' = exc
            /\ pc' = pc
            /\ results' = Append(results, fut[i].result[1])
  /\ UNCHANGED <<urls, max_workers, submitted, work_queue, num_threads,
                 fut, report, calc, attempts, others>>

\* The loop is exhausted; the with block exits (shutdown(wait=True) finds
\* every work item done) and lines 103-119 build and return the report.
Return ==
  /\ pc = "collect"
  /\ yielded = Futures
  /\ report' = Some(Summarize(urls, results))
  /\ pc' = "returned"
  /\ UNCHANGED <<urls, max_workers, submitted, work_queue, num_threads,
                 fut, yielded, results, exc, calc, attempts, others>>

\* Variant of Raise: the exception leaves check_health without waiting for
\* the workers.
Raise_NoWait ==
  /\ pc = "shutdown"
  /\ pc' = "raised"
  /\ UNCHANGED <<urls, max_workers, submitted, work_queue, num_threads,
                 fut, yielded, results, exc, report, calc, attempts, others>>

\* The with block exits on an exception: shutdown(wait=True) joins the
\* workers, which first run every queued work item; then the exception
\* leaves check_health.
Raise ==
  /\ pc = "shutdown"
  /\ Finished = Futures
  /\ pc' = "raised"
  /\ UNCHANGED <<urls, max_workers, submitted, work_queue, num_threads,
                 fut, yielded, results, exc, report, calc, attempts, others>>

Next ==
  \/ CreateExecutor
  \/ Submit
  \/ WorkerStart
  \/ \E i \in Futures, kind \in Kinds : WorkerFinish(i, kind)
  \/ \E i \in Futures : Collect(i)
  \/ Return
  \/ Raise

Spec == Init /\ [][Next]_vars

\* Worker threads and the caller thread are scheduled fairly, and every
\* request resolves (by a response, a failure or its own timeout).
FairSpec ==
  /\ Spec
  /\ WF_vars(CreateExecutor)
  /\ WF_vars(Submit)
  /\ WF_vars(WorkerStart)
  /\ \A i \in 1..MaxTargets : WF_vars(\E kind \in Kinds : WorkerFinish(i, kind))
  /\ \A i \in 1..MaxTargets : WF_vars(Collect(i))
  /\ WF_vars(Return)
  /\ WF_vars(Raise)

TypeOK ==
  /\ pc \in {"main", "call", "submit", "collect", "shutdown", "returned",
            "raised", "exited"}
  /\ submitted \in 0..Len(urls)
  /\ num_threads \in 0..MaxWorkers
  /\ yielded \subseteq Finished

\* --------------------------------------- the summary arithmetic on its own
\* (up_count, total) pairs a batch can produce: every pair of a small batch,
\* and for one large batch the pairs near all-down and all-up.
SummaryInputs ==
  {[up |-> u, total |-> t, pct |-> None] : u \in 0..SmallTotal, t \in 0..SmallTotal}
  \cup {[up |-> u, total |-> LargeTotal, pct |-> None] :
          u \in (0..Edge) \cup ((LargeTotal - Edge)..LargeTotal)}

InitPct ==
  /\ urls = << >>
  /\ max_workers = 1
  /\ pc = "call"
  /\ submitted = 0
  /\ work_queue = << >>
  /\ num_threads = 0
  /\ fut = << >>
  /\ yielded = {}
  /\ results = << >>
  /\ exc = None
  /\ report = None
  /\ calc \in {c \in SummaryInputs : c.up <= c.total}
  /\ attempts = << >>
  /\ OthersIdle

\* Line 116 applied to the counts.
ComputePct ==
  /\ calc # None
  /\ calc.pct = None
  /\ calc' = [calc EXCEPT !.pct = Some(healthy_percentage(calc.up, calc.total))]
  /\ UNCHANGED <<batch, attempts, others>>

NextPct == ComputePct

SpecPct == InitPct /\ [][NextPct]_vars

\* ------------------------------------ check_single_url called on its own
\* A caller invokes check_single_url several times in a row, passing the same
\* headers mapping each time; the system clock runs meanwhile.
EmptyMap == [k \in {} |-> k]

HeaderInputs ==
  {None, Some(EmptyMap), Some("Accept" :> "text/html"), Some("User-Agent" :> "probe/2")}

\* dict.setdefault(key, value)
SetDefault(m, key, value) == IF key \in DOMAIN m THEN m ELSE m @@ (key :> value)

\* `headers or {}`: None and an empty dict are falsy and give a new dict;
\* any other mapping is the caller's own object.
IsCallersObject(arg) == arg # None /\ arg[1] # EmptyMap

\* A HealthResult with the elapsed time of lines 46, 54, 63, 71.
TimedResult(r, start_time, end_time) ==
  r @@ ("response_time_ms" :> Some((end_time - start_time) * 1000))

InitProbe ==
  /\ urls = << >>
  /\ max_workers = 1
  /\ pc = "call"
  /\ submitted = 0
  /\ work_queue = << >>
  /\ num_threads = 0
  /\ fut = << >>
  /\ yielded = {}
  /\ results = << >>
  /\ exc = None
  /\ report = None
  /\ calc = None
  /\ attempts = << >>
  /\ stable = None
  /\ first = None
  /\ exit_status = None
  /\ caller_headers \in HeaderInputs
  /\ clock = 0
  /\ call = NoCall
  /\ ncalls = 0

\* check_single_url(url, timeout, headers) up to the point where urlopen
\* waits for the server (lines 38-45): the default User-Agent is set on the
\* mapping `headers or {}`, the Request is built (ValueError for a string
\* without a scheme, which ends the call) and start_time is read.
ProbeCall(url) ==
  /\ call.pc \in {"idle", "done"}
  /\ ncalls < MaxCalls
  /\ ncalls' = ncalls + 1
  /\ LET local == IF IsCallersObject(caller_headers) THEN caller_headers[1] ELSE EmptyMap
         merged == SetDefault(local, "User-Agent", "HealthChecker/1.0")
     IN  /\ caller_headers' = IF IsCallersObject(caller_headers)
                                THEN Some(merged) ELSE caller_headers
         /\ call' = IF HasScheme(url)
                      THEN [pc |-> "waiting", url |-> url, headers |-> merged,
                            start_time |-> clock, result |-> None, exception |-> None]
                      ELSE [pc |-> "done", url |-> url, headers |-> merged,
                            start_time |-> 0, result |-> None,
                            exception |-> Some("ValueError")]
  /\ UNCHANGED <<batch, calc, attempts, stable, first, exit_status, clock>>

\* urlopen resolves as `kind`; the branch taken reads the clock again and
\* returns the HealthResult (lines 45-77).
ProbeResolve(kind) ==
  /\ call.pc = "waiting"
  /\ kind \in Answers(call.url)
  /\ call' = [call EXCEPT
                !.pc = "done",
                !.result = Some(TimedResult(HealthResult(ncalls, call.url, kind),
                                            call.start_time, clock))]
  /\ UNCHANGED <<batch, calc, attempts, stable, first, exit_status,
                 caller_headers, clock, ncalls>>

\* time.time() is the system's wall clock: it advances, and it returns a
\* lower value than before when the system clock is set back.
ClockAdvance ==
  /\ clock < MaxClock
  /\ clock' = clock + 1
  /\ UNCHANGED <<batch, calc, attempts, stable, first, exit_status,
                 caller_headers, call, ncalls>>

ClockSetBack ==
  /\ clock > 0
  /\ clock' = clock - 1
  /\ UNCHANGED <<batch, calc, attempts, stable, first, exit_status,
                 caller_headers, call, ncalls>>

NextProbe ==
  \/ \E url \in Urls : ProbeCall(url)
  \/ \E kind \in Kinds : ProbeResolve(kind)
  \/ ClockAdvance
  \/ ClockSetBack

SpecProbe == InitProbe /\ [][NextProbe]_vars

\* --------------------------------------------- check_health called twice
\* Stable targets: every url answers each request in one fixed way.
StableEnvs ==
  {f \in [Urls -> Kinds] :
     \A u \in Urls : f[u] \in Answers(u) /\ (~HasScheme(u) => f[u] = "URLError")}

InitTwice ==
  /\ urls \in SeqsUpTo(Urls, MaxTargets)
  /\ max_workers \in (0 - 1)..MaxWorkers
  /\ pc = "call"
  /\ submitted = 0
  /\ work_queue = << >>
  /\ num_threads = 0
  /\ fut = [i \in 1..Len(urls) |-> NoFuture]
  /\ yielded = {}
  /\ results = << >>
  /\ exc = None
  /\ report = None
  /\ calc = None
  /\ attempts = [i \in 1..Len(urls) |-> 0]
  /\ stable \in {Some(f) : f \in StableEnvs}
  /\ first = None
  /\ exit_status = None
  /\ caller_headers = None
  /\ clock = 0
  /\ call = NoCall
  /\ ncalls = 0

\* The first call has ended; the caller keeps what it gave and calls
\* check_health again with the same arguments.
SecondCall ==
  /\ first = None
  /\ pc \in {"returned", "raised"}
  /\ first' = Some([report |-> report, exc |-> exc])
  /\ pc' = "call"
  /\ submitted' = 0
  /\ work_queue' = << >>
  /\ num_threads' = 0
  /\ fut' = [i \in 1..Len(urls) |-> NoFuture]
  /\ yielded' = {}
  /\ results' = << >>
  /\ exc' = None
  /\ report' = None
  /\ attempts' = [i \in 1..Len(urls) |-> 0]
  /\ UNCHANGED <<urls, max_workers, calc, stable, exit_status,
                 caller_headers, clock, call, ncalls>>

NextTwice ==
  \/ CreateExecutor
  \/ Submit
  \/ WorkerStart
  \/ \E i \in Futures : WorkerFinish(i, stable[1][urls[i]])
  \/ \E i \in Futures : Collect(i)
  \/ Return
  \/ Raise
  \/ SecondCall

SpecTwice == InitTwice /\ [][NextTwice]_vars

\* ------------------------------------------------------------- main()
\* The command-line entry point: urls and --workers come from the command
\* line (and the --file lines); printing the report is not modelled.
InitMain ==
  /\ urls \in SeqsUpTo(Urls, MaxTargets)
  /\ max_workers \in (0 - 1)..MaxWorkers
  /\ pc = "main"
  /\ submitted = 0
  /\ work_queue = << >>
  /\ num_threads = 0
  /\ fut = [i \in 1..Len(urls) |-> NoFuture]
  /\ yielded = {}
  /\ results = << >>
  /\ exc = None
  /\ report = None
  /\ calc = None
  /\ attempts = [i \in 1..Len(urls) |-> 0]
  /\ OthersIdle

\* Variant of MainCheckUrls: an empty url list is passed on to check_health.
MainCheckUrls_NoCheck ==
  /\ pc = "main"
  /\ pc' = "call"
  /\ exit_status' = exit_status
  /\ UNCHANGED <<urls, max_workers, submitted, work_queue, num_threads, fut,
                 yielded, results, exc, report, calc, attempts, stable, first,
                 caller_headers, clock, call, ncalls>>

\* Lines 135-146: with no url, main prints "No URLs provided" and exits with
\* status 1; otherwise it calls check_health.
MainCheckUrls ==
  /\ pc = "main"
  /\ IF Len(urls) = 0
       THEN /\ pc' = "exited"
            /\ exit_status' = Some(1)
       ELSE /\ pc' = "call"
            /\ exit_status' = exit_status
  /\ UNCHANGED <<urls, max_workers, submitted, work_queue, num_threads, fut,
                 yielded, results, exc, report, calc, attempts, stable, first,
                 caller_headers, clock, call, ncalls>>

\* Lines 148-161: check_health returned; the report is printed and
\* sys.exit(0 if results["all_healthy"] else 1).
MainExit ==
  /\ pc = "returned"
  /\ pc' = "exited"
  /\ exit_status' = Some(IF report[1].all_healthy THEN 0 ELSE 1)
  /\ UNCHANGED <<urls, max_workers, submitted, work_queue, num_threads, fut,
                 yielded, results, exc, report, calc, attempts, stable, first,
                 caller_headers, clock, call, ncalls>>

\* check_health raised: main catches nothing (line 146), so the interpreter
\* prints the traceback and the process ends with status 1.
MainCrash ==
  /\ pc = "raised"
  /\ pc' = "exited"
  /\ exit_status' = Some(1)
  /\ UNCHANGED <<urls, max_workers, submitted, work_queue, num_threads, fut,
                 yielded, results, exc, report, calc, attempts, stable, first,
                 caller_headers, clock, call, ncalls>>

NextMain ==
  \/ MainCheckUrls
  \/ CreateExecutor
  \/ Submit
  \/ WorkerStart
  \/ \E i \in Futures, kind \in Kinds : WorkerFinish(i, kind)
  \/ \E i \in Futures : Collect(i)
  \/ Return
  \/ Raise
  \/ MainExit
  \/ MainCrash

SpecMain == InitMain /\ [][NextMain]_vars

\* ------------------------------------------------------------ properties
Terminal == pc \in {"returned", "raised"}

Report == report[1]

\* A result as the caller sees it: the dict without the future's identity.
Visible(d) == [k \in DOMAIN d \ {"probe"} |-> d[k]]

\* The dict of the outcome that future i produced.
OutcomeOf(i) == to_dict(fut[i].result[1])

\* C1: when check_health returns, the i-th entry of the report's results is
\* the outcome of the probe of the i-th input target, whatever the order in
\* which the probes completed and were collected.
C1_ResultsInInputOrder ==
  pc = "returned" =>
    \A i \in DOMAIN Report.results :
      /\ i \in Futures
      /\ fut[i].result # None
      /\ Visible(Report.results[i]) = Visible(OutcomeOf(i))

\* C2: one future is created per element of the target list, each is queued,
\* run and finished once, and the returned report holds exactly one outcome
\* per element: len(results) = len(urls) = summary.total, and every probe's
\* own outcome appears exactly once, duplicates of a url included.
C2_OneProbeOneOutcome ==
  /\ \A i \in Futures : (fut[i].state # "none") <=> (i <= submitted)
  /\ \A i \in Futures :
       fut[i].state = "pending" <=> (\E q \in DOMAIN work_queue : work_queue[q] = i)
  /\ \A q1, q2 \in DOMAIN work_queue : work_queue[q1] = work_queue[q2] => q1 = q2
  /\ pc \in {"collect", "returned"} => submitted = Len(urls)
  /\ pc = "returned" =>
       /\ Len(Report.results) = Len(urls)
       /\ Report.summary.total = Len(urls)
       /\ \A i \in Futures :
            /\ fut[i].state = "finished"
            /\ Cardinality({j \in DOMAIN Report.results :
                              Report.results[j].probe = i}) = 1
            /\ \E j \in DOMAIN Report.results : Report.results[j] = OutcomeOf(i)

\* C2 witness: a report for a list that holds the same url twice, whose two
\* probes ended differently.
C2_Witness ==
  /\ pc = "returned"
  /\ \E i, j \in Futures :
       /\ i < j
       /\ urls[i] = urls[j]
       /\ fut[i].kind # fut[j].kind

\* C3: with max_workers = k >= 1, at most k probes have started and not yet
\* finished, so a queued target starts only once a worker is free; with an
\* invalid k none runs.
C3_AtMostKRunning ==
  /\ Cardinality(Running) <= (IF max_workers >= 1 THEN max_workers ELSE 0)
  /\ num_threads <= (IF max_workers >= 1 THEN max_workers ELSE 0)

\* C3 witness: k probes are running while another target waits for a slot.
C3_Witness ==
  /\ max_workers >= 1
  /\ Cardinality(Running) = max_workers
  /\ work_queue # << >>

\* C4: check_single_url always returns a HealthResult and never raises:
\* every finished probe holds a result and no exception.
C4_ProbeNeverRaises ==
  \A i \in Futures :
    fut[i].state = "finished" => (fut[i].exception = None /\ fut[i].result # None)

\* A probe that failed in any way: it raised, or its outcome is "down".
Failed(i) ==
  /\ fut[i].state = "finished"
  /\ \/ fut[i].exception # None
     \/ (fut[i].result # None /\ fut[i].result[1].status = "down")

\* C5: when check_health has ended for a valid max_workers and some target's
\* probe failed, every other target was probed and its outcome is in the
\* returned report.
C5_FailureIsolation ==
  (Terminal /\ max_workers >= 1) =>
    \A i, j \in Futures :
      (i # j /\ Failed(i)) =>
        /\ fut[j].state = "finished"
        /\ report # None
        /\ (fut[j].result # None =>
              \E m \in DOMAIN Report.results : Report.results[m] = OutcomeOf(j))

\* C6: every HealthResult is classified by how its request resolved:
\* a response gives up / code / no error; an HTTPError gives down / code /
\* reason; a URLError or a timeout gives down / no code / error; any other
\* exception gives down / no code / error.  So up implies code and no error,
\* down implies error, and a code implies that a response was received; the
\* dict in the report carries the same keys.
C6_Classification ==
  /\ \A i \in Futures :
       fut[i].result # None =>
         LET r == fut[i].result[1]
             kind == fut[i].kind
         IN  /\ r.status \in {"up", "down"}
             /\ kind = "response" =>
                  (r.status = "up" /\ r.status_code # None /\ r.error = None)
             /\ kind = "HTTPError" =>
                  (r.status = "down" /\ r.status_code # None /\ r.error # None)
             /\ kind \in {"URLError", "timeout", "Exception"} =>
                  (r.status = "down" /\ r.status_code = None /\ r.error # None)
             /\ r.status = "up" => (r.status_code # None /\ r.error = None)
             /\ r.status = "down" => r.error # None
             /\ r.status_code # None => kind \in {"response", "HTTPError"}
  /\ pc = "returned" =>
       \A j \in DOMAIN Report.results :
         LET d == Report.results[j]
         IN  /\ d.status = "up" =>
                  ("status_code" \in DOMAIN d /\ "error" \notin DOMAIN d)
             /\ d.status = "down" => "error" \in DOMAIN d
             /\ "status_code" \in DOMAIN d =>
                  fut[d.probe].kind \in {"response", "HTTPError"}

\* C6 witness: a report that holds an up outcome, an HTTP 500 outcome with
\* its code, and a failure without a code.
C6_Witness ==
  /\ pc = "returned"
  /\ \E a, b, c \in DOMAIN Report.results :
       /\ Report.results[a].status = "up"
       /\ Report.results[b].status = "down"
       /\ "status_code" \in DOMAIN Report.results[b]
       /\ Report.results[c].status = "down"
       /\ "status_code" \notin DOMAIN Report.results[c]

EmptyReport ==
  [results |-> << >>,
   summary |-> [total |-> 0, up |-> 0, down |-> 0, healthy_percentage |-> 0],
   all_healthy |-> TRUE]

\* C7 as stated: for an empty target list and any max_workers, check_health
\* ends by returning the empty report (total 0, percentage 0, all_healthy
\* true) without creating a thread or a future.
C7_EmptyAnyWorkers ==
  Len(urls) = 0 =>
    /\ num_threads = 0
    /\ submitted = 0
    /\ pc \in {"call", "collect", "returned"}
    /\ pc = "returned" => Report = EmptyReport

\* C7 amended: the same for an empty target list and any max_workers >= 1.
C7_EmptyValidWorkers ==
  (Len(urls) = 0 /\ max_workers >= 1) =>
    /\ num_threads = 0
    /\ submitted = 0
    /\ pc \in {"call", "collect", "returned"}
    /\ pc = "returned" => Report = EmptyReport

\* C7 witness: check_health has returned for an empty list.
C7_Witness == Len(urls) = 0 /\ max_workers >= 1 /\ pc = "returned"

\* C8: with max_workers <= 0 no future is created, no thread is spawned and
\* no probe starts; check_health ends only by raising the configuration
\* error, for every target list.
C8_NonPositiveWorkersFailFast ==
  max_workers <= 0 =>
    /\ submitted = 0
    /\ num_threads = 0
    /\ \A i \in Futures : fut[i].state = "none"
    /\ pc \in {"call", "raised"}
    /\ pc = "raised" => (exc = Some("ValueError") /\ report = None)

\* C8 witness: the error was raised for a non-empty target list.
C8_Witness == max_workers <= 0 /\ pc = "raised" /\ Len(urls) > 0

\* C9: every returned report has all_healthy = (down = 0), down = total - up
\* and up + down = total = number of results.
C9_SummaryConsistent ==
  pc = "returned" =>
    LET sm == Report.summary
    IN  /\ Report.all_healthy <=> (sm.down = 0)
        /\ sm.down = sm.total - sm.up
        /\ sm.up + sm.down = sm.total
        /\ sm.total = Len(Report.results)
        /\ sm.up = Cardinality({j \in DOMAIN Report.results :
                                  Report.results[j].status = "up"})

\* C9 witness: a report that mixes an up outcome, an HTTP error outcome and
\* an outcome without a status code.
C9_Witness ==
  /\ pc = "returned"
  /\ Report.summary.up > 0
  /\ Report.summary.down > 1
  /\ \E j \in DOMAIN Report.results :
       Report.results[j].status = "down" /\ "status_code" \in DOMAIN Report.results[j]

\* The percentage is the tenth of a percent nearest to up / total * 100.
NearestTenth(c) ==
  LET d == c.pct[1] * c.total - 1000 * c.up
  IN  2 * d <= c.total /\ 2 * (0 - d) <= c.total

\* C10 as stated: for total > 0 the percentage is up / total * 100 rounded
\* to one decimal, lies in [0, 100], is 100 exactly when all_healthy
\* (up = total) and 0 exactly when up = 0; for total = 0 it is 0.
C10_PercentageExact ==
  (calc # None /\ calc.pct # None) =>
    /\ calc.total > 0 =>
         /\ NearestTenth(calc)
         /\ calc.pct[1] >= 0 /\ calc.pct[1] <= 1000
         /\ calc.pct[1] = 1000 <=> calc.up = calc.total
         /\ calc.pct[1] = 0 <=> calc.up = 0
    /\ calc.total = 0 => calc.pct[1] = 0

\* C10 amended: for total > 0 the percentage is up / total * 100 rounded to
\* one decimal, lies in [0, 100], is 100 whenever all_healthy and 0 whenever
\* up = 0; the converses hold for total < 2000; for total = 0 it is 0.
C10_PercentageRounded ==
  (calc # None /\ calc.pct # None) =>
    /\ calc.total > 0 =>
         /\ NearestTenth(calc)
         /\ calc.pct[1] >= 0 /\ calc.pct[1] <= 1000
         /\ calc.up = calc.total => calc.pct[1] = 1000
         /\ calc.up = 0 => calc.pct[1] = 0
         /\ calc.total < 2000 =>
              /\ calc.pct[1] = 1000 => calc.up = calc.total
              /\ calc.pct[1] = 0 => calc.up = 0
    /\ calc.total = 0 => calc.pct[1] = 0

\* C10 witness: a percentage that needed rounding up (2 of 3 gives 66.7).
C10_Witness ==
  /\ calc # None
  /\ calc.pct = Some(667)
  /\ calc.up = 2
  /\ calc.total = 3

\* C11: check_single_url leaves the headers mapping of its caller unchanged:
\* no step of any invocation changes it.
C11_HeadersUnchanged == [][caller_headers' = caller_headers]_vars

\* C12: every HealthResult returned by check_single_url has response_time_ms
\* populated with a non-negative value.
C12_ElapsedNonNegative ==
  call.result # None =>
    /\ call.result[1].response_time_ms # None
    /\ call.result[1].response_time_ms[1] >= 0

\* What the idempotence claim compares: (url, status, status_code).
Triple(d) ==
  <<d.url, d.status, IF "status_code" \in DOMAIN d THEN Some(d.status_code) ELSE None>>

Triples(rep) == [j \in DOMAIN rep.results |-> Triple(rep.results[j])]

\* C13: when check_health is called twice with the same target list and
\* every target answers the same way on every request, the second call ends
\* as the first did, and both reports hold the same sequence of
\* (url, status, status_code), whatever the interleaving of either call.
C13_Idempotent ==
  (first # None /\ Terminal) =>
    /\ (report = None) <=> (first[1].report = None)
    /\ report # None => Triples(Report) = Triples(first[1].report[1])

\* C13 witness: two reports of the same batch whose probes were collected
\* in different orders.
C13_Witness ==
  /\ first # None
  /\ pc = "returned"
  /\ first[1].report # None
  /\ Len(urls) >= 2
  /\ \E j \in DOMAIN Report.results :
       Report.results[j].probe # first[1].report[1].results[j].probe

\* C14: the command-line process exits with status 0 when the report's
\* all_healthy is true and with 1 otherwise; with no url it exits with
\* status 1 and no future, thread or probe was ever created.
C14_ExitStatus ==
  /\ pc # "exited" => exit_status = None
  /\ pc = "exited" =>
       /\ exit_status \in {Some(0), Some(1)}
       /\ exit_status = Some(0) <=> (report # None /\ Report.all_healthy)
  /\ Len(urls) = 0 =>
       /\ pc \in {"main", "exited"}
       /\ submitted = 0
       /\ num_threads = 0
       /\ report = None
       /\ pc = "exited" => exit_status = Some(1)

\* C14 witness: the process exited with status 0 after probing two or more
\* targets.
C14_Witness ==
  /\ pc = "exited"
  /\ exit_status = Some(0)
  /\ Len(urls) >= 2
  /\ \A i \in Futures : attempts[i] = 1

\* C15: the sort and the summary come after every probe of the batch has
\* completed and been collected, and when check_health has ended, by
\* returning or by raising, no probe is running or queued.
C15_NoProbeLeftAtEnd ==
  /\ report # None => (yielded = Futures /\ Finished = Futures)
  /\ Terminal =>
       /\ Running = {}
       /\ work_queue = << >>
       /\ \A i \in Futures : fut[i].state \in {"none", "finished"}
       /\ max_workers >= 1 => Finished = Futures

\* C15 witness: check_health raised while the result of another, finished
\* probe had not been collected.
C15_Witness ==
  /\ pc = "raised"
  /\ Len(urls) >= 2
  /\ \E i \in Futures : i \notin yielded /\ fut[i].result # None

\* C16: for max_workers >= 1, under fair scheduling and with every probe
\* terminating, check_health eventually returns a report.
C16_EventuallyReturnsReport ==
  (max_workers >= 1) => <>(pc = "returned" /\ report # None)

\* C17: every probe sets out to make its request exactly once, also when it
\* fails, and check_health creates one future per target and never queues a
\* started or finished one again.
C17_SingleAttempt ==
  /\ submitted <= Len(urls)
  /\ \A i \in Futures :
       /\ attempts[i] <= 1
       /\ attempts[i] = 1 <=> fut[i].state \in {"running", "finished"}
       /\ fut[i].state \in {"running", "finished"} =>
            \A q \in DOMAIN work_queue : work_queue[q] # i

\* C17 witness: a batch has ended in which a probe failed after its one
\* attempt.
C17_Witness ==
  /\ Terminal
  /\ Len(urls) >= 2
  /\ \E i \in Futures : Failed(i) /\ attempts[i] = 1

====
